---- MODULE Spec2Model ----
(***************************************************************************)
(* StatusWorkload (fdbserver/workloads/StatusWorkload.actor.cpp): the      *)
(* status probe of the test harness.  Every test worker constructs the     *)
(* workload; the worker with clientId 0 runs the fetcher loop under a      *)
(* test-duration timeout, counts requests, replies, errors and reply       *)
(* sizes, and validates every reply against the configured schema.         *)
(***************************************************************************)
EXTENDS Integers, Sequences, FiniteSets, TLC

(***************************************************************************)
(* JSON values (json_spirit::mValue).  An object (mObject, a std::map) is  *)
(* a sequence of <<key, value>> pairs in key order with distinct keys; an  *)
(* array is a sequence of values.                                          *)
(***************************************************************************)
JNull == [t |-> "null"]
JBool(b) == [t |-> "bool", v |-> b]
JInt(n) == [t |-> "int", v |-> n]
JReal(n) == [t |-> "real", v |-> n]
JStr(s) == [t |-> "str", v |-> s]
JArr(s) == [t |-> "array", v |-> s]
JObj(kvs) == [t |-> "obj", v |-> kvs]

\* keys of an mObject
Keys(kvs) == {kvs[i][1] : i \in 1..Len(kvs)}

\* mObject::count(key)
Count(kvs, key) == IF key \in Keys(kvs) THEN 1 ELSE 0

\* mObject::at(key), for a key that is present
At(kvs, key) == kvs[CHOOSE i \in 1..Len(kvs) : kvs[i][1] = key][2]

(***************************************************************************)
(* Coverage-requirement generation, lines 84-108.  The result records      *)
(* whether the call threw, the paths handed to schemaCoverage(path, false) *)
(* before it returned or threw, the number of                              *)
(* SchemaCoverageRequirementsException events it logged, and the exception *)
(* it threw: "std::runtime_error" from json_spirit's get_obj, get_array    *)
(* and get_str, "unknown_error" from the handlers of lines 101-107.        *)
(***************************************************************************)
CovResult(failed, paths, events) ==
    [failed |-> failed, paths |-> paths, events |-> events,
     error |-> IF failed THEN "std::runtime_error" ELSE "none"]

\* an outcome that throws error
CovThrow(error, paths, events) ==
    [failed |-> TRUE, paths |-> paths, events |-> events, error |-> error]

RECURSIVE EnumCoverage(_, _, _)

\* lines 95-96 with the loop left after the first item
EnumCoverageFirstOnly(items, spath, i) ==
    IF i > Len(items) THEN CovResult(FALSE, {}, 0)
    ELSE IF items[i].t # "str" THEN CovResult(TRUE, {}, 0)
    ELSE CovResult(FALSE, {spath \o ".$enum." \o items[i].v}, 0)

\* lines 95-96: the loop over the $enum payload from item i on; get_str()
\* throws on an item that is not a string
EnumCoverage(items, spath, i) ==
    IF i > Len(items) THEN CovResult(FALSE, {}, 0)
    ELSE IF items[i].t # "str" THEN CovResult(TRUE, {}, 0)
    ELSE LET rest == EnumCoverage(items, spath, i + 1)
         IN  CovResult(rest.failed, {spath \o ".$enum." \o items[i].v} \cup rest.paths, 0)

RECURSIVE schemaCoverageRequirements(_, _)
RECURSIVE CoverageLoop(_, _, _)

\* the loop body of lines 91-99 skipping a $enum payload that is not an array
CoverageEntrySkipsBadEnum(sv, spath) ==
    IF sv.t = "array" /\ Len(sv.v) > 0
    THEN IF sv.v[1].t # "obj" THEN CovResult(TRUE, {}, 0)
         ELSE schemaCoverageRequirements(sv.v[1].v, spath \o "[0]")
    ELSE IF sv.t = "obj"
    THEN IF Count(sv.v, "$enum") > 0
         THEN LET payload == At(sv.v, "$enum")
              IN  IF payload.t # "array" THEN CovResult(FALSE, {}, 0)
                  ELSE EnumCoverage(payload.v, spath, 1)
         ELSE schemaCoverageRequirements(sv.v, spath)
    ELSE CovResult(FALSE, {}, 0)

\* lines 91-99: what the loop body does with the value of one key after its
\* path is registered; get_obj() and get_array() throw on a value of
\* another type
CoverageEntry(sv, spath) ==
    IF sv.t = "array" /\ Len(sv.v) > 0
    THEN IF sv.v[1].t # "obj" THEN CovResult(TRUE, {}, 0)
         ELSE schemaCoverageRequirements(sv.v[1].v, spath \o "[0]")
    ELSE IF sv.t = "obj"
    THEN IF Count(sv.v, "$enum") > 0
         THEN LET payload == At(sv.v, "$enum")
              IN  IF payload.t # "array" THEN CovResult(TRUE, {}, 0)
                  ELSE EnumCoverage(payload.v, spath, 1)
         ELSE schemaCoverageRequirements(sv.v, spath)
    ELSE CovResult(FALSE, {}, 0)

\* lines 86-100 with get_obj() called on the value of every key
CoverageLoopRecursesAll(schema, schema_path, i) ==
    IF i > Len(schema) THEN CovResult(FALSE, {}, 0)
    ELSE LET spath == schema_path \o "." \o schema[i][1]
             entry == IF schema[i][2].t \notin {"array", "obj"} THEN CovResult(TRUE, {}, 0)
                      ELSE CoverageEntry(schema[i][2], spath)
         IN  IF entry.failed
             THEN CovThrow(entry.error, {spath} \cup entry.paths, entry.events)
             ELSE LET rest == CoverageLoop(schema, schema_path, i + 1)
                  IN  [rest EXCEPT !.paths = {spath} \cup entry.paths \cup @,
                                   !.events = entry.events + @]

\* lines 86-100: the loop over the keys of schema from pair i on; an
\* exception leaves the loop
CoverageLoop(schema, schema_path, i) ==
    IF i > Len(schema) THEN CovResult(FALSE, {}, 0)
    ELSE LET spath == schema_path \o "." \o schema[i][1]
             entry == CoverageEntry(schema[i][2], spath)
         IN  IF entry.failed
             THEN CovThrow(entry.error, {spath} \cup entry.paths, entry.events)
             ELSE LET rest == CoverageLoop(schema, schema_path, i + 1)
                  IN  [rest EXCEPT !.paths = {spath} \cup entry.paths \cup @,
                                   !.events = entry.events + @]

\* lines 84-108 with handlers that throw the caught exception again
schemaCoverageRequirementsRethrows(schema, schema_path) ==
    LET body == CoverageLoop(schema, schema_path, 1)
    IN  IF body.failed THEN CovThrow(body.error, body.paths, body.events + 1) ELSE body

\* lines 84-108: the try block and its two handlers, which log one event
\* and throw unknown_error
schemaCoverageRequirements(schema, schema_path) ==
    LET body == CoverageLoop(schema, schema_path, 1)
    IN  IF body.failed THEN CovThrow("unknown_error", body.paths, body.events + 1) ELSE body

(***************************************************************************)
(* The schema matcher, schemaMatch(schema, result, errorStr, sev, true).   *)
(* Its body is in fdbclient, outside this file; it is modelled from the    *)
(* validator rules 1-5 of the specification.                               *)
(***************************************************************************)
\* rule 2: the type class of a value; the two numeric types are one class
TypeClass(value) == IF value.t \in {"int", "real"} THEN "number" ELSE value.t

RECURSIVE MatchNode(_, _, _)
RECURSIVE MatchEach(_, _, _, _)
RECURSIVE MatchKeys(_, _, _, _)

\* rules 2-5: one value against the schema entry declared for it
MatchNode(sn, value, strict) ==
    IF sn.t = "obj" /\ Count(sn.v, "$enum") > 0
    THEN value.t = "str" /\ \E i \in 1..Len(At(sn.v, "$enum").v) : At(sn.v, "$enum").v[i] = value
    ELSE IF sn.t = "obj" /\ Count(sn.v, "$map") > 0
    THEN value.t = "obj"
         /\ MatchEach(At(sn.v, "$map"), [i \in 1..Len(value.v) |-> value.v[i][2]], strict, 1)
    ELSE IF sn.t = "obj"
    THEN value.t = "obj" /\ MatchKeys(sn.v, value.v, strict, 1)
    ELSE IF sn.t = "array"
    THEN value.t = "array" /\ MatchEach(sn.v[1], value.v, strict, 1)
    ELSE TypeClass(sn) = TypeClass(value)

\* rules 4 and 5: every value of the sequence, from item i on, against one template
MatchEach(template, values, strict, i) ==
    IF i > Len(values) THEN TRUE
    ELSE IF ~MatchNode(template, values[i], strict) THEN FALSE
    ELSE MatchEach(template, values, strict, i + 1)

\* rule 1: the keys of the value-object from pair i on; a key the schema
\* does not declare fails when strict, a declared one is validated
MatchKeys(schema, value, strict, i) ==
    IF i > Len(value) THEN TRUE
    ELSE IF Count(schema, value[i][1]) = 0
    THEN IF strict THEN FALSE ELSE MatchKeys(schema, value, strict, i + 1)
    ELSE IF ~MatchNode(At(schema, value[i][1]), value[i][2], strict) THEN FALSE
    ELSE MatchKeys(schema, value, strict, i + 1)

schemaMatch(schema, result, strict) == MatchKeys(schema, result, strict, 1)

(***************************************************************************)
(* save(br, result); br.getLength(): the length of the serialized reply.   *)
(* The serializer is outside this file; the length is modelled as one unit *)
(* per node plus the characters of its strings and keys.                   *)
(***************************************************************************)
RECURSIVE SerializedSize(_)
RECURSIVE SizeSum(_, _)
SizeSum(values, i) ==
    IF i > Len(values) THEN 0 ELSE SerializedSize(values[i]) + SizeSum(values, i + 1)

SerializedSize(value) ==
    IF value.t = "str" THEN 1 + Len(value.v)
    ELSE IF value.t = "array" THEN 1 + SizeSum(value.v, 1)
    ELSE IF value.t = "obj"
    THEN 1 + SizeSum([i \in 1..Len(value.v) |-> JStr(value.v[i][1])], 1)
           + SizeSum([i \in 1..Len(value.v) |-> value.v[i][2]], 1)
    ELSE 1

(***************************************************************************)
(* Documents used as inputs.                                               *)
(***************************************************************************)
\* the schema of line 144 with mapped declared as a plain object
testSchemaPlainMapped ==
    JObj(<< <<"apple", JInt(3)>>,
            <<"arr", JArr(<< JObj(<< <<"a", JInt(1)>>, <<"b", JInt(2)>> >>) >>)>>,
            <<"banana", JStr("foo")>>,
            <<"en", JObj(<< <<"$enum", JArr(<< JStr("foo"), JStr("bar") >>)>> >>)>>,
            <<"mapped", JObj(<< <<"x", JBool(TRUE)>> >>)>>,
            <<"sub", JObj(<< <<"thing", JBool(TRUE)>> >>)>> >>)

\* line 144: the schema of the unit test
testSchema ==
    JObj(<< <<"apple", JInt(3)>>,
            <<"arr", JArr(<< JObj(<< <<"a", JInt(1)>>, <<"b", JInt(2)>> >>) >>)>>,
            <<"banana", JStr("foo")>>,
            <<"en", JObj(<< <<"$enum", JArr(<< JStr("foo"), JStr("bar") >>)>> >>)>>,
            <<"mapped", JObj(<< <<"$map", JObj(<< <<"x", JBool(TRUE)>> >>)>> >>)>>,
            <<"sub", JObj(<< <<"thing", JBool(TRUE)>> >>)>> >>)

(***************************************************************************)
(* Configuration.  The text of the schema option is a record of its length *)
(* and of the document it denotes; readJSONStrictly yields that document.  *)
(***************************************************************************)
EmptyText == [size |-> 0]
Text(doc) == [size |-> SerializedSize(doc), json |-> doc]
readJSONStrictly(text) == text.json

\* the options of the test: the schema option is absent or given with a text
OptAbsent == [present |-> FALSE]
OptGiven(text) == [present |-> TRUE, text |-> text]

\* getOption(options, key, default)
getOption(opt, default) == IF opt.present THEN opt.text ELSE default

\* line 44: JSONSchemas::statusSchema, the default of the schema option: the
\* schema of the cluster status document, declared in fdbclient/Schemas.h
\* (line 26); a non-empty text, of which this is an excerpt
statusSchema ==
    Text(JObj(<< <<"client", JObj(<< <<"database_status",
                     JObj(<< <<"available", JBool(TRUE)>>, <<"healthy", JBool(TRUE)>> >>)>> >>)>> >>))

\* a configured schema with a malformed $enum one object down
badEnumSchema == JObj(<< <<"sub", JObj(<< <<"en", JObj(<< <<"$enum", JInt(5)>> >>)>> >>)>> >>)

\* a configured schema with a $enum item that is not a string
badItemSchema == JObj(<< <<"en", JObj(<< <<"$enum", JArr(<< JStr("foo"), JInt(1) >>)>> >>)>> >>)

\* a configured schema with an array of a scalar, three calls down
badTemplateSchema ==
    JObj(<< <<"arr", JArr(<< JObj(<< <<"o", JObj(<< <<"list", JArr(<< JInt(1) >>)>> >>)>> >>) >>)>> >>)

\* the schema options of the runs explored
SchemaOptions ==
    {OptAbsent, OptGiven(EmptyText), OptGiven(Text(testSchema)), OptGiven(Text(badEnumSchema)),
     OptGiven(Text(badItemSchema)), OptGiven(Text(badTemplateSchema))}

\* the status documents the cluster may return
StatusReplies ==
    {JObj(<< >>), JObj(<< <<"apple", JInt(4)>> >>), JObj(<< <<"extrathingy", JInt(1)>> >>)}

\* the errors a fetch may fail with, other than the cancellation of the actor
FetchErrors == {"timed_out", "connection_failed"}

\* the workers of the test are numbered 0..MaxClientId
MaxClientId == 1
Clients == 0..MaxClientId

\* the runs explored issue at most MaxRequests requests
MaxRequests == 3

EventNames ==
    {"StatusWorkloadReply", "StatusWorkloadValidationFailed", "StatusWorkloadError",
     "StatusWorkloadStartError", "SchemaCoverageRequirementsException"}

VARIABLES
    option,           \* the schema option of the test
    cluster,          \* cx->cluster: "NULL" or "ok"
    phase,            \* per worker: "new", "constructed" or "failed" (the constructor threw)
    ctorError,        \* per worker: the exception the constructor threw, or "none"
    parsedSchema,     \* per worker: Optional<StatusObject>, << >> or <<object>>
    noUnseed,         \* the global flag of line 30
    coverageRequired, \* the paths registered by schemaCoverage(path, false)
    traceEvents,      \* per worker: the number of events logged, by name
    startState,       \* per worker: the future of start: "notStarted", "running", "done", "error"
    pc,               \* per worker: the fetcher actor: "Idle", "WaitingTick", "Fetching", "Cancelled", "Failed"
    fetch,            \* per worker: the statusFetcher call: "none", "inflight", "cancelled"
    requests, replies, errors, totalSize,   \* per worker: the PerfIntCounters
    checkResult,      \* per worker: "none", "pass", "fail"
    metrics,          \* per worker: << >> before getMetrics, then <<the vector m>>
    fetchFailures,    \* per worker: the fetches that failed with an error of FetchErrors
    matchCalls,       \* per worker: the calls of schemaMatch
    replySizes,       \* per worker: the serialized sizes of the replies received
    lateArrivals,     \* per worker: the results that came for a fetch cancelled in flight
    tcSchema, tcValue, tcResult   \* the unit test: its schema, the value of one check, its outcome

vars == <<option, cluster, phase, ctorError, parsedSchema, noUnseed, coverageRequired, traceEvents,
          startState, pc, fetch, requests, replies, errors, totalSize, checkResult, metrics,
          fetchFailures, matchCalls, replySizes, lateArrivals, tcSchema, tcValue, tcResult>>

configVars == <<option, cluster>>
ctorVars == <<phase, ctorError, parsedSchema, noUnseed, coverageRequired>>
counterVars == <<requests, replies, errors, totalSize>>
reportVars == <<checkResult, metrics>>
historyVars == <<fetchFailures, matchCalls, replySizes, lateArrivals>>
testVars == <<tcSchema, tcValue, tcResult>>

\* the state of the workers before any constructor has run
WorkersNew ==
    /\ phase = [c \in Clients |-> "new"]
    /\ ctorError = [c \in Clients |-> "none"]
    /\ parsedSchema = [c \in Clients |-> << >>]
    /\ noUnseed = FALSE
    /\ coverageRequired = {}
    /\ traceEvents = [c \in Clients |-> [e \in EventNames |-> 0]]
    /\ startState = [c \in Clients |-> "notStarted"]
    /\ pc = [c \in Clients |-> "Idle"]
    /\ fetch = [c \in Clients |-> "none"]
    /\ requests = [c \in Clients |-> 0]
    /\ replies = [c \in Clients |-> 0]
    /\ errors = [c \in Clients |-> 0]
    /\ totalSize = [c \in Clients |-> 0]
    /\ checkResult = [c \in Clients |-> "none"]
    /\ metrics = [c \in Clients |-> << >>]
    /\ fetchFailures = [c \in Clients |-> 0]
    /\ matchCalls = [c \in Clients |-> 0]
    /\ replySizes = [c \in Clients |-> << >>]
    /\ lateArrivals = [c \in Clients |-> 0]

\* the unit test is not running
TestIdle ==
    /\ tcSchema = testSchema
    /\ tcValue = JObj(<< >>)
    /\ tcResult = "none"

Init ==
    /\ option \in SchemaOptions
    /\ cluster \in {"NULL", "ok"}
    /\ WorkersNew
    /\ TestIdle

\* TraceEvent(sev, name) of worker c, n times
Logged(c, name, n) ==
    [traceEvents EXCEPT ![c] = [@ EXCEPT ![name] = @ + n]]

\* the constructor taking an empty schema text for an unset option
ConstructEmptyAsDefault(c) ==
    /\ phase[c] = "new"
    /\ LET given == getOption(option, statusSchema)
           statusSchemaStr == IF given.size > 0 THEN given ELSE statusSchema
           schema == readJSONStrictly(statusSchemaStr)
           cov == schemaCoverageRequirements(schema.v, "")
       IN  /\ coverageRequired' = coverageRequired \cup cov.paths
           /\ traceEvents' = Logged(c, "SchemaCoverageRequirementsException", cov.events)
           /\ IF cov.failed
              THEN /\ phase' = [phase EXCEPT ![c] = "failed"]
                   /\ ctorError' = [ctorError EXCEPT ![c] = cov.error]
                   /\ UNCHANGED <<parsedSchema, noUnseed>>
              ELSE /\ phase' = [phase EXCEPT ![c] = "constructed"]
                   /\ UNCHANGED ctorError
                   /\ parsedSchema' = [parsedSchema EXCEPT ![c] = <<schema.v>>]
                   /\ noUnseed' = TRUE
    /\ UNCHANGED <<configVars, startState, pc, fetch, counterVars, reportVars, historyVars, testVars>>

(***************************************************************************)
(* The constructor, lines 38-54.  When schemaCoverageRequirements throws,  *)
(* the constructor throws and line 53 is not reached; the workload object  *)
(* does not come to exist.  The configured texts are JSON objects, so      *)
(* lines 46 and 47 do not throw.                                           *)
(***************************************************************************)
Construct(c) ==
    /\ phase[c] = "new"
    /\ LET statusSchemaStr == getOption(option, statusSchema)
       IN  IF statusSchemaStr.size > 0
           THEN LET schema == readJSONStrictly(statusSchemaStr)
                    cov == schemaCoverageRequirements(schema.v, "")
                IN  /\ coverageRequired' = coverageRequired \cup cov.paths
                    /\ traceEvents' = Logged(c, "SchemaCoverageRequirementsException", cov.events)
                    /\ IF cov.failed
                       THEN /\ phase' = [phase EXCEPT ![c] = "failed"]
                            /\ ctorError' = [ctorError EXCEPT ![c] = cov.error]
                            /\ UNCHANGED <<parsedSchema, noUnseed>>
                       ELSE /\ phase' = [phase EXCEPT ![c] = "constructed"]
                            /\ UNCHANGED ctorError
                            /\ parsedSchema' = [parsedSchema EXCEPT ![c] = <<schema.v>>]
                            /\ noUnseed' = TRUE
           ELSE /\ phase' = [phase EXCEPT ![c] = "constructed"]
                /\ UNCHANGED ctorError
                /\ noUnseed' = TRUE
                /\ UNCHANGED <<parsedSchema, coverageRequired, traceEvents>>
    /\ UNCHANGED <<configVars, startState, pc, fetch, counterVars, reportVars, historyVars, testVars>>

\* start without the test of the cluster of line 64
StartIgnoresNullCluster(c) ==
    /\ phase[c] = "constructed"
    /\ startState[c] = "notStarted"
    /\ IF c # 0
       THEN /\ startState' = [startState EXCEPT ![c] = "done"]
            /\ UNCHANGED <<pc, traceEvents>>
       ELSE /\ startState' = [startState EXCEPT ![c] = "running"]
            /\ pc' = [pc EXCEPT ![c] = "WaitingTick"]
            /\ UNCHANGED traceEvents
    /\ UNCHANGED <<configVars, ctorVars, fetch, counterVars, reportVars, historyVars, testVars>>

\* start without the test of clientId of line 61
StartEveryClient(c) ==
    /\ phase[c] = "constructed"
    /\ startState[c] = "notStarted"
    /\ IF cluster = "NULL"
       THEN /\ traceEvents' = Logged(c, "StatusWorkloadStartError", 1)
            /\ startState' = [startState EXCEPT ![c] = "done"]
            /\ UNCHANGED pc
       ELSE /\ startState' = [startState EXCEPT ![c] = "running"]
            /\ pc' = [pc EXCEPT ![c] = "WaitingTick"]
            /\ UNCHANGED traceEvents
    /\ UNCHANGED <<configVars, ctorVars, fetch, counterVars, reportVars, historyVars, testVars>>

(***************************************************************************)
(* start, lines 60-69.  The fetcher actor runs to its first wait (line     *)
(* 114); timeout(...) arms the test-duration timer.                        *)
(***************************************************************************)
Start(c) ==
    /\ phase[c] = "constructed"
    /\ startState[c] = "notStarted"
    /\ IF c # 0
       THEN /\ startState' = [startState EXCEPT ![c] = "done"]
            /\ UNCHANGED <<pc, traceEvents>>
       ELSE IF cluster = "NULL"
       THEN /\ traceEvents' = Logged(c, "StatusWorkloadStartError", 1)
            /\ startState' = [startState EXCEPT ![c] = "done"]
            /\ UNCHANGED pc
       ELSE /\ startState' = [startState EXCEPT ![c] = "running"]
            /\ pc' = [pc EXCEPT ![c] = "WaitingTick"]
            /\ UNCHANGED traceEvents
    /\ UNCHANGED <<configVars, ctorVars, fetch, counterVars, reportVars, historyVars, testVars>>

(***************************************************************************)
(* The fetcher actor, lines 110-137.                                       *)
(***************************************************************************)
\* lines 114-119 with a tick that does not wait for the fetch of the last one
TickWhileFetching(c) ==
    /\ pc[c] \in {"WaitingTick", "Fetching"}
    /\ requests[c] < MaxRequests
    /\ requests' = [requests EXCEPT ![c] = @ + 1]
    /\ fetch' = [fetch EXCEPT ![c] = "inflight"]
    /\ pc' = [pc EXCEPT ![c] = "Fetching"]
    /\ UNCHANGED <<configVars, ctorVars, traceEvents, startState, replies, errors, totalSize,
                   reportVars, historyVars, testVars>>

\* lines 114-119: the tick wait ends, the request is counted and issued
Tick(c) ==
    /\ pc[c] = "WaitingTick"
    /\ requests[c] < MaxRequests
    /\ requests' = [requests EXCEPT ![c] = @ + 1]
    /\ fetch' = [fetch EXCEPT ![c] = "inflight"]
    /\ pc' = [pc EXCEPT ![c] = "Fetching"]
    /\ UNCHANGED <<configVars, ctorVars, traceEvents, startState, replies, errors, totalSize,
                   reportVars, historyVars, testVars>>

\* lines 125-127: whether the reply is reported as failing validation
ValidationFailed(schemaOpt, result) ==
    schemaOpt # << >> /\ ~schemaMatch(schemaOpt[1], result.v, TRUE)

\* the reply handling of lines 119-128 with a failed validation counted in errors
StatusReplyCountsMismatch(c, result) ==
    /\ pc[c] = "Fetching"
    /\ replies' = [replies EXCEPT ![c] = @ + 1]
    /\ totalSize' = [totalSize EXCEPT ![c] = @ + SerializedSize(result)]
    /\ errors' = [errors EXCEPT ![c] = IF ValidationFailed(parsedSchema[c], result) THEN @ + 1 ELSE @]
    /\ traceEvents' =
          [traceEvents EXCEPT ![c] =
              [@ EXCEPT !["StatusWorkloadReply"] = @ + 1,
                        !["StatusWorkloadValidationFailed"] =
                            IF ValidationFailed(parsedSchema[c], result) THEN @ + 1 ELSE @]]
    /\ matchCalls' = [matchCalls EXCEPT ![c] = IF parsedSchema[c] # << >> THEN @ + 1 ELSE @]
    /\ replySizes' = [replySizes EXCEPT ![c] = Append(@, SerializedSize(result))]
    /\ fetch' = [fetch EXCEPT ![c] = "none"]
    /\ pc' = [pc EXCEPT ![c] = "WaitingTick"]
    /\ UNCHANGED <<configVars, ctorVars, startState, requests, reportVars,
                   fetchFailures, lateArrivals, testVars>>

\* the reply handling of lines 119-128 with a suspension after ++replies
StatusReplySuspends(c, result) ==
    \/ /\ pc[c] = "Fetching"
       /\ replies' = [replies EXCEPT ![c] = @ + 1]
       /\ fetch' = [fetch EXCEPT ![c] = "none"]
       /\ pc' = [pc EXCEPT ![c] = "Validating"]
       /\ UNCHANGED <<configVars, ctorVars, traceEvents, startState, requests, errors,
                      totalSize, reportVars, historyVars, testVars>>
    \/ /\ pc[c] = "Validating"
       /\ totalSize' = [totalSize EXCEPT ![c] = @ + SerializedSize(result)]
       /\ traceEvents' =
             [traceEvents EXCEPT ![c] =
                 [@ EXCEPT !["StatusWorkloadReply"] = @ + 1,
                           !["StatusWorkloadValidationFailed"] =
                               IF ValidationFailed(parsedSchema[c], result) THEN @ + 1 ELSE @]]
       /\ matchCalls' = [matchCalls EXCEPT ![c] = IF parsedSchema[c] # << >> THEN @ + 1 ELSE @]
       /\ replySizes' = [replySizes EXCEPT ![c] = Append(@, SerializedSize(result))]
       /\ pc' = [pc EXCEPT ![c] = "WaitingTick"]
       /\ UNCHANGED <<configVars, ctorVars, startState, fetch, requests, replies, errors,
                      reportVars, fetchFailures, lateArrivals, testVars>>

\* lines 119-128: the fetch returns result; the reply is counted, measured,
\* logged and validated, and the loop is back at the tick wait
StatusReply(c, result) ==
    /\ pc[c] = "Fetching"
    /\ replies' = [replies EXCEPT ![c] = @ + 1]
    /\ totalSize' = [totalSize EXCEPT ![c] = @ + SerializedSize(result)]
    /\ traceEvents' =
          [traceEvents EXCEPT ![c] =
              [@ EXCEPT !["StatusWorkloadReply"] = @ + 1,
                        !["StatusWorkloadValidationFailed"] =
                            IF ValidationFailed(parsedSchema[c], result) THEN @ + 1 ELSE @]]
    /\ matchCalls' = [matchCalls EXCEPT ![c] = IF parsedSchema[c] # << >> THEN @ + 1 ELSE @]
    /\ replySizes' = [replySizes EXCEPT ![c] = Append(@, SerializedSize(result))]
    /\ fetch' = [fetch EXCEPT ![c] = "none"]
    /\ pc' = [pc EXCEPT ![c] = "WaitingTick"]
    /\ UNCHANGED <<configVars, ctorVars, startState, requests, errors, reportVars,
                   fetchFailures, lateArrivals, testVars>>

\* the handler of lines 129-135 without the test of line 130
FetcherCatchCountsCancel(c, e) ==
    /\ traceEvents' = Logged(c, "StatusWorkloadError", 1)
    /\ errors' = [errors EXCEPT ![c] = @ + 1]

\* lines 129-135: the handler of the try block: an error other than the
\* cancellation is logged and counted; every error is thrown again
FetcherCatch(c, e) ==
    /\ IF e # "actor_cancelled"
       THEN /\ traceEvents' = Logged(c, "StatusWorkloadError", 1)
            /\ errors' = [errors EXCEPT ![c] = @ + 1]
       ELSE UNCHANGED <<traceEvents, errors>>

\* line 119: the fetch fails with e; the handler runs, the actor ends with
\* e, and timeout and success hand e to the future of start
StatusError(c, e) ==
    /\ pc[c] = "Fetching"
    /\ FetcherCatch(c, e)
    /\ fetchFailures' = [fetchFailures EXCEPT ![c] = @ + 1]
    /\ fetch' = [fetch EXCEPT ![c] = "none"]
    /\ pc' = [pc EXCEPT ![c] = "Failed"]
    /\ startState' = [startState EXCEPT ![c] = "error"]
    /\ UNCHANGED <<configVars, ctorVars, requests, replies, totalSize, reportVars,
                   matchCalls, replySizes, lateArrivals, testVars>>

\* the timer of line 68 cancelling the fetcher at the tick wait only
TimeoutFiresAtTickOnly(c) ==
    /\ startState[c] = "running"
    /\ pc[c] = "WaitingTick"
    /\ pc' = [pc EXCEPT ![c] = "Cancelled"]
    /\ startState' = [startState EXCEPT ![c] = "done"]
    /\ UNCHANGED <<configVars, ctorVars, traceEvents, errors, fetch, requests, replies,
                   totalSize, reportVars, historyVars, testVars>>

\* line 68: the test-duration timer fires; timeout returns and drops the
\* fetcher, which is cancelled at the wait it is suspended in: at line 114
\* outside the try block, at line 119 inside it
TimeoutFires(c) ==
    /\ startState[c] = "running"
    /\ \/ /\ pc[c] = "WaitingTick"
          /\ UNCHANGED <<traceEvents, errors, fetch>>
       \/ /\ pc[c] = "Fetching"
          /\ FetcherCatch(c, "actor_cancelled")
          /\ fetch' = [fetch EXCEPT ![c] = "cancelled"]
    /\ pc' = [pc EXCEPT ![c] = "Cancelled"]
    /\ startState' = [startState EXCEPT ![c] = "done"]
    /\ UNCHANGED <<configVars, ctorVars, requests, replies, totalSize, reportVars,
                   historyVars, testVars>>

\* the outcomes of a fetch that resolves after its waiter was cancelled
LateOutcomes == {"reply", "failure"}

\* lines 68 and 119 with the cancelled fetcher resumed by the late outcome
StatusArrivesLateCounted(c, outcome) ==
    /\ fetch[c] = "cancelled"
    /\ lateArrivals[c] = 0
    /\ lateArrivals' = [lateArrivals EXCEPT ![c] = @ + 1]
    /\ replies' = [replies EXCEPT ![c] = IF outcome = "reply" THEN @ + 1 ELSE @]
    /\ errors' = [errors EXCEPT ![c] = IF outcome = "failure" THEN @ + 1 ELSE @]
    /\ UNCHANGED <<configVars, ctorVars, traceEvents, startState, pc, fetch, requests,
                   totalSize, reportVars, fetchFailures, matchCalls, replySizes, testVars>>

\* lines 68 and 119: the status fetch of a cancelled fetcher resolves; the
\* actor that waited for it is gone, so the outcome is dropped
StatusArrivesLate(c, outcome) ==
    /\ fetch[c] = "cancelled"
    /\ lateArrivals[c] = 0
    /\ lateArrivals' = [lateArrivals EXCEPT ![c] = @ + 1]
    /\ UNCHANGED <<configVars, ctorVars, traceEvents, startState, pc, fetch, counterVars,
                   reportVars, fetchFailures, matchCalls, replySizes, testVars>>

(***************************************************************************)
(* check and getMetrics, lines 70-82, called once the run has ended.       *)
(***************************************************************************)
\* check of line 71 with the comparison turned around
CheckInverted(c) ==
    /\ startState[c] \in {"done", "error"}
    /\ checkResult[c] = "none"
    /\ checkResult' = [checkResult EXCEPT ![c] = IF errors[c] # 0 THEN "pass" ELSE "fail"]
    /\ UNCHANGED <<configVars, ctorVars, traceEvents, startState, pc, fetch, counterVars,
                   metrics, historyVars, testVars>>

Check(c) ==
    /\ startState[c] \in {"done", "error"}
    /\ checkResult[c] = "none"
    /\ checkResult' = [checkResult EXCEPT ![c] = IF errors[c] = 0 THEN "pass" ELSE "fail"]
    /\ UNCHANGED <<configVars, ctorVars, traceEvents, startState, pc, fetch, counterVars,
                   metrics, historyVars, testVars>>

\* line 80 with a quotient rounded up
AverageReplySizeRoundsUp(total, count) ==
    IF count # 0 THEN (total + count - 1) \div count ELSE 0

\* line 80: the average reply size
AverageReplySize(total, count) == IF count # 0 THEN total \div count ELSE 0

PerfMetric(name, value) == [name |-> name, value |-> value]

GetMetrics(c) ==
    /\ startState[c] \in {"done", "error"}
    /\ metrics[c] = << >>
    /\ metrics' = [metrics EXCEPT ![c] =
          IF c # 0 THEN << << >> >>
          ELSE << << PerfMetric("Status requests issued", requests[c]),
                     PerfMetric("Status replies received", replies[c]),
                     PerfMetric("Average Reply Size", AverageReplySize(totalSize[c], replies[c])),
                     PerfMetric("Status Errors", errors[c]) >> >>]
    /\ UNCHANGED <<configVars, ctorVars, traceEvents, startState, pc, fetch, counterVars,
                   checkResult, historyVars, testVars>>

Next ==
    \E c \in Clients :
        \/ Construct(c)
        \/ Start(c)
        \/ Tick(c)
        \/ \E result \in StatusReplies : StatusReply(c, result)
        \/ \E e \in FetchErrors : StatusError(c, e)
        \/ TimeoutFires(c)
        \/ \E outcome \in LateOutcomes : StatusArrivesLate(c, outcome)
        \/ Check(c)
        \/ GetMetrics(c)

Spec == Init /\ [][Next]_vars

(***************************************************************************)
(* The unit test /fdbserver/status/schema/basic, lines 143-165.            *)
(***************************************************************************)
\* the check lambda of lines 145-150 with a lenient match
TestCheckLenient ==
    /\ tcResult = "none"
    /\ tcResult' = IF schemaMatch(tcSchema.v, tcValue.v, FALSE) THEN "match" ELSE "nomatch"
    /\ UNCHANGED <<configVars, ctorVars, traceEvents, startState, pc, fetch, counterVars,
                   reportVars, historyVars, tcSchema, tcValue>>

\* lines 145-150: the check lambda: the value is matched against the schema
TestCheck ==
    /\ tcResult = "none"
    /\ tcResult' = IF schemaMatch(tcSchema.v, tcValue.v, TRUE) THEN "match" ELSE "nomatch"
    /\ UNCHANGED <<configVars, ctorVars, traceEvents, startState, pc, fetch, counterVars,
                   reportVars, historyVars, tcSchema, tcValue>>

\* lines 151-162: the checks of the unit test and what each expects
TestCases ==
    << [expect_ok |-> TRUE,  test |-> JObj(<< >>)],
       [expect_ok |-> TRUE,  test |-> JObj(<< <<"apple", JInt(4)>> >>)],
       [expect_ok |-> FALSE, test |-> JObj(<< <<"apple", JStr("wrongtype")>> >>)],
       [expect_ok |-> FALSE, test |-> JObj(<< <<"extrathingy", JInt(1)>> >>)],
       [expect_ok |-> TRUE,  test |-> JObj(<< <<"banana", JStr("b")>>,
                                              <<"sub", JObj(<< <<"thing", JBool(FALSE)>> >>)>> >>)],
       [expect_ok |-> FALSE, test |-> JObj(<< <<"banana", JStr("b")>>,
                                              <<"sub", JObj(<< <<"thing", JBool(FALSE)>>,
                                                               <<"x", JInt(0)>> >>)>> >>)],
       [expect_ok |-> TRUE,  test |-> JObj(<< <<"arr", JArr(<< JObj(<< >>),
                                                               JObj(<< <<"a", JInt(0)>> >>) >>)>> >>)],
       [expect_ok |-> FALSE, test |-> JObj(<< <<"arr", JArr(<< JObj(<< <<"a", JInt(0)>> >>),
                                                               JObj(<< <<"c", JInt(0)>> >>) >>)>> >>)],
       [expect_ok |-> TRUE,  test |-> JObj(<< <<"en", JStr("bar")>> >>)],
       [expect_ok |-> FALSE, test |-> JObj(<< <<"en", JStr("baz")>> >>)],
       [expect_ok |-> TRUE,  test |-> JObj(<< <<"mapped",
                                   JObj(<< <<"item1", JObj(<< <<"x", JBool(FALSE)>> >>)>>,
                                           <<"item2", JObj(<< >>)>> >>)>> >>)],
       [expect_ok |-> FALSE, test |-> JObj(<< <<"mapped",
                                   JObj(<< <<"item1", JObj(<< <<"x", JBool(FALSE)>> >>)>>,
                                           <<"item2", JObj(<< <<"y", JInt(1)>> >>)>> >>)>> >>)] >>

\* a schema of plain objects and scalars, three objects deep
plainSchema ==
    JObj(<< <<"apple", JReal(1)>>,
            <<"banana", JBool(TRUE)>>,
            <<"sub", JObj(<< <<"sub", JObj(<< <<"thing", JBool(TRUE)>> >>)>>,
                             <<"x", JStr("s")>> >>)>> >>)

MatchSchemas == {testSchema, plainSchema, JObj(<< >>)}

\* the values matched: every one-key object over the keys below whose
\* value is a scalar, an object up to two deep or an array of objects, and
\* the values of the unit test
Scalars == {JNull, JBool(FALSE), JInt(0), JReal(2), JStr("bar"), JStr("baz")}
InnerKeys == {"a", "c", "thing", "x", "y"}
Inner == {JObj(<< >>)} \cup {JObj(<< <<k, s>> >>) : k \in InnerKeys, s \in Scalars}
SmallInner ==
    {JObj(<< >>), JObj(<< <<"a", JInt(0)>> >>), JObj(<< <<"c", JInt(0)>> >>),
     JObj(<< <<"x", JBool(FALSE)>> >>), JObj(<< <<"y", JInt(1)>> >>)}
Mid ==
    {JObj(<< <<k, o>> >>) : k \in {"item1", "sub"}, o \in Inner \cup {JInt(0)}}
        \cup {JObj(<< <<"item1", o1>>, <<"item2", o2>> >>) : o1 \in SmallInner, o2 \in SmallInner}
Arrays ==
    {JArr(<< >>)} \cup {JArr(<<o>>) : o \in Inner \cup {JInt(0)}}
        \cup {JArr(<<o1, o2>>) : o1 \in SmallInner, o2 \in SmallInner}
TopKeys == {"apple", "arr", "banana", "en", "mapped", "sub", "extrathingy"}
MatchValues ==
    {JObj(<< <<k, p>> >>) : k \in TopKeys, p \in Scalars \cup Inner \cup Mid \cup Arrays}
        \cup {TestCases[i].test : i \in 1..Len(TestCases)}

InitMatch ==
    /\ option = OptGiven(EmptyText)
    /\ cluster = "ok"
    /\ WorkersNew
    /\ tcSchema \in MatchSchemas
    /\ tcValue \in MatchValues
    /\ tcResult = "none"

NextMatch == TestCheck

SpecMatch == InitMatch /\ [][NextMatch]_vars

(***************************************************************************)
(* Construction over a range of configured schemas: every node below at    *)
(* every place below.                                                      *)
(***************************************************************************)
EmptyArrayNodes == {JArr(<< >>)}
BadEnumNodes ==
    {JObj(<< <<"$enum", JInt(5)>> >>), JObj(<< <<"$enum", JStr("foo")>> >>),
     JObj(<< <<"$enum", JObj(<< <<"foo", JInt(1)>> >>)>> >>),
     JObj(<< <<"$enum", JArr(<< JInt(1) >>)>> >>),
     JObj(<< <<"$enum", JArr(<< JStr("foo"), JNull >>)>> >>)}
ScalarMapNodes ==
    {JObj(<< <<"$map", JInt(5)>> >>), JObj(<< <<"$map", JStr("s")>> >>),
     JObj(<< <<"$map", JNull>> >>), JObj(<< <<"$map", JArr(<< >>)>> >>)}
ArrayMapNodes == {JObj(<< <<"$map", JArr(<< JInt(1) >>)>> >>)}
WellFormedNodes ==
    {JInt(1), JStr("s"), JObj(<< >>), JObj(<< <<"k", JBool(TRUE)>> >>),
     JObj(<< <<"$enum", JArr(<< JStr("foo"), JStr("bar") >>)>> >>),
     JObj(<< <<"$enum", JArr(<< >>)>> >>),
     JObj(<< <<"$map", JObj(<< <<"x", JBool(TRUE)>> >>)>> >>),
     JArr(<< JObj(<< <<"a", JInt(1)>> >>) >>), JArr(<< JObj(<< >>) >>)}
BadTemplateNodes == {JArr(<< JInt(1) >>), JArr(<< JArr(<< JObj(<< >>) >>) >>)}
EnumTemplateNodes == {JArr(<< JObj(<< <<"$enum", JArr(<< JStr("foo"), JStr("bar") >>)>> >>) >>)}
TwoElementNodes == {JArr(<< JObj(<< >>), JObj(<< >>) >>)}
SchemaNodes ==
    EmptyArrayNodes \cup BadEnumNodes \cup ScalarMapNodes \cup ArrayMapNodes
        \cup WellFormedNodes \cup BadTemplateNodes \cup EnumTemplateNodes
        \cup TwoElementNodes

\* the places of a node in a schema: the value of a key of an object the
\* walk of lines 86-100 comes to
AtTop(n) == JObj(<< <<"f", n>> >>)
InObject(n) == JObj(<< <<"o", AtTop(n)>> >>)
InArray(n) == JObj(<< <<"arr", JArr(<< AtTop(n) >>)>> >>)
InMap(n) == JObj(<< <<"m", JObj(<< <<"$map", AtTop(n)>> >>)>> >>)
AfterKey(n) == JObj(<< <<"a", JInt(1)>>, <<"f", n>> >>)
InObjectInArray(n) == JObj(<< <<"o", InArray(n)>> >>)
InMapInArray(n) == JObj(<< <<"arr", JArr(<< InMap(n) >>)>> >>)
WalkedPlaces(n) ==
    {AtTop(n), InObject(n), InArray(n), InMap(n), AfterKey(n), InObjectInArray(n), InMapInArray(n)}

\* places the walk does not come to, or comes to as an object of its own:
\* beside a $enum key, in the second element of an array, as the element
\* of an array
BesideEnum(n) == JObj(<< <<"e", JObj(<< <<"$enum", JArr(<< JStr("foo") >>)>>, <<"f", n>> >>)>> >>)
InSecondElement(n) == JObj(<< <<"arr", JArr(<< JObj(<< >>), AtTop(n) >>)>> >>)
AsElement(n) == JObj(<< <<"arr", JArr(<< n >>)>> >>)
OtherPlaces(n) == {BesideEnum(n), InSecondElement(n), AsElement(n)}

CoverageSchemas == {testSchema} \cup UNION {WalkedPlaces(n) \cup OtherPlaces(n) : n \in SchemaNodes}

InitCoverage ==
    /\ option \in {OptGiven(Text(schema)) : schema \in CoverageSchemas}
    /\ cluster = "ok"
    /\ WorkersNew
    /\ TestIdle

NextCoverage == \E c \in Clients : Construct(c)

SpecCoverage == InitCoverage /\ [][NextCoverage]_vars

\* the test-duration timer of a running start fires in the end
FairSpec == Spec /\ \A c \in Clients : WF_vars(TimeoutFires(c))

(***************************************************************************)
(* Properties of the fetcher loop.                                         *)
(***************************************************************************)
\* the run of worker c has ended
RunEnded(c) == startState[c] \in {"done", "error"}

\* C1: a fetch that fails with an error other than the cancellation adds
\* one to errors and leaves the loop running, back at the tick wait.
C1_FetchErrorContinues ==
    [][\A c \in Clients :
          fetchFailures'[c] = fetchFailures[c] + 1
              => errors'[c] = errors[c] + 1 /\ pc'[c] = "WaitingTick"]_vars

\* C2: when the timer ends a running start, at the tick wait or with a
\* fetch in flight, the loop ends in Cancelled, errors is unchanged and no
\* error event is logged; errors never counts anything but failed fetches.
C2_CancelNotCounted ==
    /\ [][\A c \in Clients :
             (startState[c] = "running" /\ startState'[c] = "done")
                 => /\ pc[c] \in {"WaitingTick", "Fetching"}
                    /\ pc'[c] = "Cancelled"
                    /\ errors'[c] = errors[c]
                    /\ traceEvents'[c] = traceEvents[c]]_vars
    /\ [](\A c \in Clients : errors[c] = fetchFailures[c])

C2_Witness ==
    pc[0] = "Cancelled" /\ fetch[0] = "cancelled" /\ replies[0] >= 1 /\ errors[0] = 0

\* C3: check passes exactly when errors is 0; at the end of a run errors is
\* not 0 exactly when a fetch failed with an error other than the
\* cancellation; a run whose fetches all succeeded passes.
C3_CheckIffNoFetchFailed ==
    \A c \in Clients :
        /\ checkResult[c] # "none" => (checkResult[c] = "pass" <=> errors[c] = 0)
        /\ RunEnded(c) => (errors[c] # 0 <=> fetchFailures[c] > 0)
        /\ fetchFailures[c] = 0 => checkResult[c] # "fail"

C3_Witness ==
    /\ checkResult[0] = "pass"
    /\ replies[0] = requests[0] /\ replies[0] >= 2
    /\ parsedSchema[0] # << >>
    /\ traceEvents[0]["StatusWorkloadValidationFailed"] >= 1

\* C4: a reply that fails validation logs one mismatch event and the loop
\* is back at the tick wait; the four counters change as for any reply of
\* that size, so errors still counts the failed fetches only.
C4_MismatchNotCounted ==
    /\ [][\A c \in Clients :
             traceEvents'[c]["StatusWorkloadValidationFailed"]
                     # traceEvents[c]["StatusWorkloadValidationFailed"]
                 => /\ traceEvents'[c]["StatusWorkloadValidationFailed"]
                           = traceEvents[c]["StatusWorkloadValidationFailed"] + 1
                    /\ pc'[c] = "WaitingTick"
                    /\ requests'[c] = requests[c]
                    /\ replies'[c] = replies[c] + 1
                    /\ errors'[c] = errors[c]
                    /\ totalSize'[c] = totalSize[c] + replySizes'[c][Len(replySizes'[c])]]_vars
    /\ [](\A c \in Clients :
             (fetchFailures[c] = 0 /\ traceEvents[c]["StatusWorkloadValidationFailed"] > 0)
                 => errors[c] = 0 /\ checkResult[c] # "fail")

C4_Witness ==
    /\ traceEvents[0]["StatusWorkloadValidationFailed"] = 2
    /\ errors[0] = 0
    /\ checkResult[0] = "pass"

\* C5: a worker whose clientId is not 0 never runs the loop: its start is
\* done at once, it issues no fetch, its counters stay 0 and getMetrics
\* reports nothing; at most one fetch is in flight in the group.
C5_OnlyClientZeroProbes ==
    /\ \A c \in Clients \ {0} :
          /\ startState[c] \in {"notStarted", "done"}
          /\ pc[c] = "Idle"
          /\ fetch[c] = "none"
          /\ requests[c] = 0 /\ replies[c] = 0 /\ errors[c] = 0 /\ totalSize[c] = 0
          /\ metrics[c] \in {<< >>, << << >> >>}
    /\ Cardinality({c \in Clients : fetch[c] = "inflight"}) <= 1

C5_Witness ==
    /\ fetch[0] = "inflight"
    /\ \A c \in Clients \ {0} : startState[c] = "done" /\ metrics[c] = << << >> >>

\* the sum of a sequence of numbers
RECURSIVE SeqSum(_)
SeqSum(seq) == IF seq = << >> THEN 0 ELSE Head(seq) + SeqSum(Tail(seq))

\* no schema is held, no requirement was generated, no reply was handed to
\* the matcher and no mismatch was logged
ValidationDisabled ==
    /\ coverageRequired = {}
    /\ \A c \in Clients :
          /\ parsedSchema[c] = << >>
          /\ matchCalls[c] = 0
          /\ traceEvents[c]["StatusWorkloadValidationFailed"] = 0

\* every tick is counted in requests and every reply in replies and totalSize
LoopCounts ==
    \A c \in Clients :
        /\ requests[c] = replies[c] + fetchFailures[c]
                            + (IF fetch[c] \in {"inflight", "cancelled"} THEN 1 ELSE 0)
        /\ replies[c] = Len(replySizes[c])
        /\ totalSize[c] = SeqSum(replySizes[c])

\* C6 as stated: with the schema option empty or absent validation is
\* disabled, and the loop still counts.
C6_EmptyOrAbsentDisables ==
    (~option.present \/ option.text.size = 0) => (ValidationDisabled /\ LoopCounts)

\* C6: with the schema option given and empty validation is disabled and the
\* loop still counts; with the option absent the default schema is parsed,
\* its requirements are generated and every reply is handed to the matcher.
C6_EmptyDisablesAbsentDefaults ==
    /\ (option.present /\ option.text.size = 0) => (ValidationDisabled /\ LoopCounts)
    /\ ~option.present =>
          \A c \in Clients :
              /\ phase[c] = "constructed" =>
                    /\ parsedSchema[c] = <<readJSONStrictly(statusSchema).v>>
                    /\ ".client.database_status.available" \in coverageRequired
              /\ matchCalls[c] = replies[c]

C6_Witness ==
    /\ option.present /\ option.text.size = 0
    /\ requests[0] = 2 /\ replies[0] = 2 /\ totalSize[0] > 2

\* C7: on the designated worker a running start ends: the timer fires
\* whatever the loop is doing, and then the loop is in Cancelled and start
\* is done.
C7_LoopTerminates ==
    /\ (startState[0] = "running") ~> (RunEnded(0) /\ pc[0] \in {"Cancelled", "Failed"})
    /\ []((startState[0] = "done" /\ cluster = "ok") => pc[0] = "Cancelled")

C7_Witness ==
    pc[0] = "Cancelled" /\ startState[0] = "done" /\ requests[0] = 0

(***************************************************************************)
(* Properties of the schema matcher, on the checks of the unit test.       *)
(***************************************************************************)
\* the check of the unit test has run on case i
TestCaseRun(i) ==
    tcSchema = testSchema /\ tcValue = TestCases[i].test /\ tcResult # "none"

\* a schema entry accepts a value: a scalar entry by its type class, any
\* other by the rules of its shape
EntryAccepts(sn, value) ==
    IF sn.t \notin {"obj", "array"} THEN TypeClass(sn) = TypeClass(value)
    ELSE MatchNode(sn, value, TRUE)

\* the value has a key the schema does not declare, at some depth of plain objects
RECURSIVE UnknownKeyAtDepth(_, _)
UnknownKeyAtDepth(schema, value) ==
    \E i \in 1..Len(value) :
        \/ value[i][1] \notin Keys(schema)
        \/ LET sn == At(schema, value[i][1])
           IN  /\ sn.t = "obj" /\ value[i][2].t = "obj"
               /\ Count(sn.v, "$enum") = 0 /\ Count(sn.v, "$map") = 0
               /\ UnknownKeyAtDepth(sn.v, value[i][2].v)

\* C8: the strict match of an object value against an object schema
\* succeeds exactly when every key of the value is declared and its value
\* is accepted by the entry; schema keys the value lacks are not required,
\* the empty object matches, and an undeclared key at any depth fails.
C8_StrictClosedWorld ==
    tcResult # "none" =>
        LET S == tcSchema.v
            V == tcValue.v
        IN  /\ tcResult = "match" <=>
                  /\ Keys(V) \subseteq Keys(S)
                  /\ \A k \in Keys(V) \cap Keys(S) : EntryAccepts(At(S, k), At(V, k))
            /\ V = << >> => tcResult = "match"
            /\ UnknownKeyAtDepth(S, V) => tcResult = "nomatch"
            /\ \A i \in 1..6 :
                  TestCaseRun(i) => (tcResult = "match" <=> TestCases[i].expect_ok)

C8_Witness ==
    /\ tcSchema = plainSchema
    /\ tcValue = JObj(<< <<"sub", JObj(<< <<"sub", JObj(<< <<"x", JInt(0)>> >>)>> >>)>> >>)
    /\ tcResult = "nomatch"

\* the values the entries mapped, arr and en of the schema of the unit test admit
MappedAdmits(x) ==
    /\ x.t = "obj"
    /\ \A i \in 1..Len(x.v) :
          LET entry == x.v[i][2]
          IN  /\ entry.t = "obj"
              /\ Keys(entry.v) \subseteq {"x"}
              /\ \A j \in 1..Len(entry.v) : entry.v[j][2].t = "bool"
ArrAdmits(x) ==
    /\ x.t = "array"
    /\ \A i \in 1..Len(x.v) :
          /\ x.v[i].t = "obj"
          /\ Keys(x.v[i].v) \subseteq {"a", "b"}
          /\ \A j \in 1..Len(x.v[i].v) : x.v[i].v[j][2].t \in {"int", "real"}
EnAdmits(x) == x.t = "str" /\ x.v \in {"foo", "bar"}

\* C9: under $map the value is an object of any keys whose every value
\* matches the template, closed-world; under an array schema every element
\* matches the template; under $enum the value is one of the allowed strings.
C9_MapArrayEnum ==
    (tcResult # "none" /\ Len(tcValue.v) = 1 /\ tcValue.v[1][1] \in Keys(tcSchema.v)) =>
        LET sn == At(tcSchema.v, tcValue.v[1][1])
            x == tcValue.v[1][2]
            ok == tcResult = "match"
        IN  /\ (sn.t = "obj" /\ Count(sn.v, "$map") > 0) =>
                  (ok <=> /\ x.t = "obj"
                          /\ \A i \in 1..Len(x.v) : MatchNode(At(sn.v, "$map"), x.v[i][2], TRUE))
            /\ sn.t = "array" =>
                  (ok <=> x.t = "array" /\ \A i \in 1..Len(x.v) : MatchNode(sn.v[1], x.v[i], TRUE))
            /\ (sn.t = "obj" /\ Count(sn.v, "$enum") > 0) =>
                  (ok <=> /\ x.t = "str"
                          /\ x \in {At(sn.v, "$enum").v[i] : i \in 1..Len(At(sn.v, "$enum").v)})
            /\ (tcSchema = testSchema /\ tcValue.v[1][1] = "mapped") => (ok <=> MappedAdmits(x))
            /\ (tcSchema = testSchema /\ tcValue.v[1][1] = "arr") => (ok <=> ArrAdmits(x))
            /\ (tcSchema = testSchema /\ tcValue.v[1][1] = "en") => (ok <=> EnAdmits(x))
            /\ \A i \in 7..12 :
                  TestCaseRun(i) => (ok <=> TestCases[i].expect_ok)

C9_Witness ==
    /\ tcSchema = testSchema
    /\ tcValue = JObj(<< <<"mapped", JObj(<< <<"item1", JObj(<< <<"x", JBool(FALSE)>> >>)>>,
                                             <<"item2", JObj(<< <<"y", JInt(1)>> >>)>> >>)>> >>)
    /\ tcResult = "nomatch"

(***************************************************************************)
(* Properties of the coverage-requirement generation at construction.      *)
(***************************************************************************)
\* the configured schema
ConfiguredSchema == readJSONStrictly(getOption(option, statusSchema))

\* a node of the set occurs in the value, at any depth
RECURSIVE ContainsNode(_, _)
ContainsNode(value, nodes) ==
    \/ value \in nodes
    \/ value.t = "obj" /\ \E i \in 1..Len(value.v) : ContainsNode(value.v[i][2], nodes)
    \/ value.t = "array" /\ \E i \in 1..Len(value.v) : ContainsNode(value.v[i], nodes)

\* C10 as stated: a schema with, at any depth, an array schema of no
\* elements, a $enum whose payload is not an array of strings or a $map
\* whose payload is of the wrong kind makes the generation fail.
C10_MalformedAlwaysFails ==
    \A c \in Clients :
        (phase[c] # "new"
            /\ ContainsNode(ConfiguredSchema,
                            EmptyArrayNodes \cup BadEnumNodes \cup ScalarMapNodes \cup ArrayMapNodes))
            => phase[c] = "failed"

\* C10: the generation fails when the value of a key the walk comes to is
\* a $enum whose payload is not an array of strings, or an array (the
\* payload of a $map too) whose first element is not an object; an array
\* schema of no elements and a $map whose payload is a scalar or an empty
\* array are passed over.
C10_BadEnumFails ==
    \A c \in Clients :
        phase[c] # "new" =>
            /\ (\E n \in BadEnumNodes \cup ArrayMapNodes \cup BadTemplateNodes :
                    ConfiguredSchema \in WalkedPlaces(n))
                  => phase[c] = "failed" /\ traceEvents[c]["SchemaCoverageRequirementsException"] >= 1
            /\ (\E n \in EmptyArrayNodes \cup ScalarMapNodes : ConfiguredSchema \in WalkedPlaces(n))
                  => phase[c] = "constructed" /\ traceEvents[c]["SchemaCoverageRequirementsException"] = 0

C10_Witness ==
    /\ ConfiguredSchema = InMapInArray(JObj(<< <<"$enum", JArr(<< JStr("foo"), JNull >>)>> >>))
    /\ phase[0] = "failed"
    /\ ".arr[0].m.$map.f.$enum.foo" \in coverageRequired

\* C11: when the generation fails, whatever threw and however deep, the
\* constructor throws unknown_error and nothing else; the worker never
\* starts, so it issues no request.
C11_GenericSetupError ==
    \A c \in Clients :
        /\ ctorError[c] # "none" <=> phase[c] = "failed"
        /\ phase[c] = "failed" =>
              /\ ctorError[c] = "unknown_error"
              /\ traceEvents[c]["SchemaCoverageRequirementsException"] >= 1
              /\ startState[c] = "notStarted" /\ pc[c] = "Idle" /\ fetch[c] = "none"
              /\ requests[c] = 0

C11_Witness ==
    /\ option = OptGiven(Text(badItemSchema))
    /\ phase[0] = "failed" /\ phase[1] = "failed"
    /\ ".en.$enum.foo" \in coverageRequired

\* the value reported under the given name by worker c, -1 when not reported
Reported(c, name) ==
    LET vec == metrics[c][1]
        hits == {i \in 1..Len(vec) : vec[i].name = name}
    IN  IF hits = {} THEN -1 ELSE vec[CHOOSE i \in hits : TRUE].value

\* C12: the reported average reply size is totalSize divided by replies
\* (integer division) when replies is positive and 0 when it is zero;
\* totalSize is the sum of the sizes of exactly the replies counted.
C12_AverageReplySize ==
    \A c \in Clients :
        /\ Len(replySizes[c]) = replies[c]
        /\ totalSize[c] = SeqSum(replySizes[c])
        /\ (c = 0 /\ metrics[c] # << >>) =>
              /\ replies[c] = 0 => Reported(c, "Average Reply Size") = 0
              /\ replies[c] > 0 =>
                    /\ Reported(c, "Average Reply Size") * replies[c] <= totalSize[c]
                    /\ totalSize[c] < (Reported(c, "Average Reply Size") + 1) * replies[c]

C12_Witness ==
    /\ metrics[0] # << >>
    /\ replySizes[0] = <<1, 8>>
    /\ replies[0] = 2 /\ totalSize[0] = 9
    /\ Reported(0, "Average Reply Size") = 4

\* every request of worker c is a reply, an error or the one fetch outstanding
Accounted(c) ==
    /\ replies[c] + errors[c] <= requests[c]
    /\ requests[c] <= replies[c] + errors[c] + 1
    /\ requests[c] = replies[c] + errors[c] + 1 <=> fetch[c] \in {"inflight", "cancelled"}
    /\ fetch[c] = "inflight" <=> pc[c] = "Fetching"

\* C13: replies + errors <= requests <= replies + errors + 1, with the upper
\* value exactly while a fetch is in flight or after one was cancelled in
\* flight; a request is issued only when no fetch is outstanding; the four
\* counters never decrease.
C13_CountersAccount ==
    /\ [](\A c \in Clients : Accounted(c))
    /\ [][\A c \in Clients :
             /\ requests'[c] >= requests[c] /\ replies'[c] >= replies[c]
             /\ errors'[c] >= errors[c] /\ totalSize'[c] >= totalSize[c]
             /\ requests'[c] # requests[c] =>
                   /\ fetch[c] = "none" /\ fetch'[c] = "inflight"
                   /\ requests'[c] = requests[c] + 1]_vars

C13_Witness ==
    /\ requests[0] = 3 /\ replies[0] = 2 /\ errors[0] = 0
    /\ fetch[0] = "cancelled" /\ pc[0] = "Cancelled"

\* every counted reply of worker c has been measured, logged and, with a
\* schema held, handed to the matcher
RepliesProcessed(c) ==
    /\ traceEvents[c]["StatusWorkloadReply"] = replies[c]
    /\ Len(replySizes[c]) = replies[c]
    /\ totalSize[c] = SeqSum(replySizes[c])
    /\ matchCalls[c] = IF parsedSchema[c] # << >> THEN replies[c] ELSE 0

\* C14: the loop is cancelled only from the tick wait or the fetch wait, and
\* the handling of a reply is one step: in every state each counted reply
\* has its size in totalSize, its reply event logged and, with a schema
\* configured, has been validated; the cancellation itself counts no reply.
C14_ReplyHandlingAtomic ==
    /\ [](\A c \in Clients : RepliesProcessed(c))
    /\ [][\A c \in Clients :
             (pc'[c] = "Cancelled" /\ pc[c] # "Cancelled") =>
                 /\ pc[c] \in {"WaitingTick", "Fetching"}
                 /\ replies'[c] = replies[c] /\ totalSize'[c] = totalSize[c]
                 /\ matchCalls'[c] = matchCalls[c]]_vars

C14_Witness ==
    /\ pc[0] = "Cancelled" /\ fetch[0] = "none"
    /\ parsedSchema[0] # << >>
    /\ replies[0] = 2 /\ matchCalls[0] = 2
    /\ traceEvents[0]["StatusWorkloadReply"] = 2
    /\ traceEvents[0]["StatusWorkloadValidationFailed"] = 1

\* the four counters of worker c
Counters(c) == <<requests[c], replies[c], errors[c], totalSize[c]>>

\* C15: a fetch cancelled in flight stays counted in requests only, also
\* when its outcome arrives after the cancellation; once the loop of a
\* worker has ended its four counters never change, so check and getMetrics
\* read final values.
C15_CancelledFetchCountedOnce ==
    /\ [](\A c \in Clients :
             fetch[c] = "cancelled" =>
                 /\ requests[c] = replies[c] + errors[c] + 1
                 /\ replies[c] = Len(replySizes[c])
                 /\ errors[c] = fetchFailures[c]
                 /\ totalSize[c] = SeqSum(replySizes[c]))
    /\ [][\A c \in Clients :
             /\ (RunEnded(c) \/ fetch'[c] = "cancelled") => Counters(c)' = Counters(c)
             /\ RunEnded(c) => RunEnded(c)' /\ pc'[c] = pc[c]]_vars

C15_Witness ==
    /\ fetch[0] = "cancelled" /\ lateArrivals[0] = 1
    /\ requests[0] = 2 /\ replies[0] = 1 /\ errors[0] = 0
    /\ checkResult[0] = "pass"
    /\ metrics[0] # << >> /\ Reported(0, "Status replies received") = 1

\* the value is a field carrying an enum directive
IsEnumField(v) == v.t = "obj" /\ Count(v.v, "$enum") > 0

\* a schema node of the data model: a scalar, an object of nodes, a $enum
\* with an array of strings, a $map with a template, a single-element
\* array of a template; the template of an array is any node when
\* anyTemplate holds and an object without enum directive otherwise
RECURSIVE WellFormed(_, _)
WellFormed(v, anyTemplate) ==
    IF v.t = "array"
    THEN /\ Len(v.v) = 1
         /\ anyTemplate \/ (v.v[1].t = "obj" /\ ~IsEnumField(v.v[1]))
         /\ WellFormed(v.v[1], anyTemplate)
    ELSE IF IsEnumField(v)
    THEN LET payload == At(v.v, "$enum")
         IN  payload.t = "array" /\ \A j \in 1..Len(payload.v) : payload.v[j].t = "str"
    ELSE IF v.t = "obj"
    THEN \A i \in 1..Len(v.v) : WellFormed(v.v[i][2], anyTemplate)
    ELSE TRUE

\* the path set of the object with the given pairs under base: the path of
\* every key (of a field with an enum directive only when bare holds), the
\* paths of an array's template under path[0], the path of every allowed
\* value of an enum directive, the paths of a nested object
RECURSIVE PathsBelow(_, _, _)
PathsBelow(pairs, base, bare) ==
    UNION {LET path == base \o "." \o pairs[i][1]
               v == pairs[i][2]
           IN  (IF IsEnumField(v) /\ ~bare THEN {} ELSE {path})
                   \cup (IF v.t = "array" THEN PathsBelow(v.v[1].v, path \o "[0]", bare)
                         ELSE IF IsEnumField(v)
                         THEN {path \o ".$enum." \o At(v.v, "$enum").v[j].v :
                                   j \in 1..Len(At(v.v, "$enum").v)}
                         ELSE IF v.t = "obj" THEN PathsBelow(v.v, path, bare)
                         ELSE {})
           : i \in 1..Len(pairs)}

\* once generated, the registry holds the paths of the configured schema
RegistryIs(bare) ==
    \A c \in Clients :
        (phase[c] # "new" /\ WellFormed(ConfiguredSchema, FALSE)) =>
            /\ phase[c] = "constructed"
            /\ coverageRequired = PathsBelow(ConfiguredSchema.v, "", bare)

\* a second generation leaves the registry as it is
SecondGenerationKeeps ==
    (WellFormed(ConfiguredSchema, FALSE) /\ \E c \in Clients : phase[c] # "new")
        => coverageRequired' = coverageRequired

\* C16 as stated: the registry holds the path of every key reached, the
\* paths of an array's template under path[0] and, for a field with an
\* enum directive, one path per allowed value and not the path of the field.
C16_EnumFieldNotRegistered == [](RegistryIs(FALSE)) /\ [][SecondGenerationKeeps]_vars

\* C16: the registry holds the path of every key reached, the field with
\* an enum directive included, the paths of an array's template under
\* path[0] and one path per allowed value of an enum directive; a second
\* generation from the same schema leaves the registry unchanged.
C16_PathSet ==
    /\ [](RegistryIs(TRUE))
    /\ [][SecondGenerationKeeps]_vars
    /\ []((ConfiguredSchema = testSchema /\ \E c \in Clients : phase[c] # "new") =>
             coverageRequired =
                 {".apple", ".arr", ".arr[0].a", ".arr[0].b", ".banana", ".en",
                  ".en.$enum.foo", ".en.$enum.bar", ".mapped", ".mapped.$map",
                  ".mapped.$map.x", ".sub", ".sub.thing"})

C16_Witness ==
    /\ ConfiguredSchema = testSchema
    /\ phase[0] = "constructed" /\ phase[1] = "constructed"
    /\ {".en", ".en.$enum.foo", ".en.$enum.bar", ".arr[0].b"} \subseteq coverageRequired

\* C17 as stated: a schema of the data model whose array templates are any
\* node, a scalar or a nested array template included, is walked without
\* the setup error.
C17_AnyTemplateAccepted ==
    \A c \in Clients :
        (phase[c] # "new" /\ WellFormed(ConfiguredSchema, TRUE)) => phase[c] = "constructed"

\* C17: a schema of the data model whose array templates are objects is
\* walked without the setup error and without an exception event; an array
\* whose template is a scalar, an array or an enum directive makes the
\* generation fail.
C17_ObjectTemplateAccepted ==
    \A c \in Clients :
        phase[c] # "new" =>
            /\ WellFormed(ConfiguredSchema, FALSE) =>
                  /\ phase[c] = "constructed" /\ ctorError[c] = "none"
                  /\ traceEvents[c]["SchemaCoverageRequirementsException"] = 0
            /\ (\E n \in BadTemplateNodes \cup EnumTemplateNodes :
                    ConfiguredSchema \in WalkedPlaces(n)) =>
                  phase[c] = "failed" /\ ctorError[c] = "unknown_error"

C17_Witness ==
    /\ ConfiguredSchema = InObjectInArray(JArr(<< JObj(<< <<"a", JInt(1)>> >>) >>))
    /\ WellFormed(ConfiguredSchema, FALSE)
    /\ phase[0] = "constructed"
    /\ ".o.arr[0].f[0].a" \in coverageRequired

\* C18 as stated: one reply event per reply, one error event per failed
\* fetch, at most one mismatch event per reply, and exactly one exception
\* event when the generation fails, however deep the malformed node is.
C18_OneEventPerOccurrence ==
    \A c \in Clients :
        /\ traceEvents[c]["StatusWorkloadReply"] = replies[c]
        /\ traceEvents[c]["StatusWorkloadError"] = fetchFailures[c]
        /\ traceEvents[c]["StatusWorkloadValidationFailed"] <= matchCalls[c]
        /\ traceEvents[c]["SchemaCoverageRequirementsException"] =
               IF phase[c] = "failed" THEN 1 ELSE 0

\* C19: with no cluster the loop of worker 0 is never started: start is
\* done after one StatusWorkloadStartError event, no request is issued,
\* the four counters stay 0 and check passes.
C19_NoClusterNoProbe ==
    cluster = "NULL" =>
        \A c \in Clients :
            /\ pc[c] = "Idle" /\ fetch[c] = "none"
            /\ startState[c] \in {"notStarted", "done"}
            /\ Counters(c) = <<0, 0, 0, 0>>
            /\ traceEvents[c]["StatusWorkloadStartError"] =
                   IF c = 0 /\ startState[c] = "done" THEN 1 ELSE 0
            /\ checkResult[c] \in {"none", "pass"}
            /\ (c = 0 /\ metrics[c] # << >>) =>
                  /\ Reported(c, "Status requests issued") = 0
                  /\ Reported(c, "Average Reply Size") = 0

C19_Witness ==
    /\ cluster = "NULL"
    /\ startState[0] = "done"
    /\ traceEvents[0]["StatusWorkloadStartError"] = 1
    /\ checkResult[0] = "pass"
    /\ metrics[0] # << >> /\ Reported(0, "Status requests issued") = 0

====
